---- MODULE Spec2Model ----
(***************************************************************************)
(* Text-metrics engine and batch drivers of the Sentiment-Analysis         *)
(* repository: src/sentiment_analyzer.py (TextAnalyzer, main) and          *)
(* src/main.py (ArticleScraper).                                           *)
(*                                                                         *)
(* A Python str is a sequence of one-character strings.  Two code points   *)
(* that have no ASCII spelling are written by their Unicode names:         *)
(* "U+0130" (LATIN CAPITAL LETTER I WITH DOT ABOVE) and "U+0307"           *)
(* (COMBINING DOT ABOVE).  A Python float that is a quotient of small      *)
(* integers is kept as the exact fraction [num, den].                      *)
(***************************************************************************)
EXTENDS Integers, Sequences, FiniteSets, TLC

VARIABLES text, cleans, tokens, positive_words, negative_words, out,
          driver, web, idx, fetches, results, output, written, pc

vars == << text, cleans, tokens, positive_words, negative_words, out,
           driver, web, idx, fetches, results, output, written, pc >>

\* Python's None where a str is expected: a value that is no character sequence
None == << "None" >>

\* no exception was raised
NoError == "none"

(***************************************************************************)
(* Bounds of the model.                                                    *)
(***************************************************************************)
MaxLen == 4

MaxCleans == 2

MaxTokens == 3

MaxRows == 3

(***************************************************************************)
(* Characters: str.isalnum, str.lower, whitespace, sentence terminators.   *)
(***************************************************************************)
LowerCase ==
    << "a","b","c","d","e","f","g","h","i","j","k","l","m","n","o","p","q","r","s","t","u","v","w","x","y","z" >>

UpperCase ==
    << "A","B","C","D","E","F","G","H","I","J","K","L","M","N","O","P","Q","R","S","T","U","V","W","X","Y","Z" >>

Digits == {"0", "1", "2", "3", "4", "5", "6", "7", "8", "9"}

DottedCapitalI == "U+0130"

CombiningDot == "U+0307"

Range(s) == { s[i] : i \in DOMAIN s }

IsSpace(c) == c = " "

\* the sentence-final characters "!" and "?", which the word tokenizer always
\* splits off as tokens of their own
Terminators == {"!", "?"}

isalnum_char(c) == c \in Range(LowerCase) \cup Range(UpperCase) \cup Digits \cup {DottedCapitalI}

\* str.lower of one character; U+0130 lowers to the two code points "i" U+0307
lower_char(c) ==
    IF c = DottedCapitalI THEN << "i", CombiningDot >>
    ELSE IF c \in Range(UpperCase)
         THEN << LowerCase[CHOOSE i \in DOMAIN UpperCase : UpperCase[i] = c] >>
         ELSE << c >>

\* the concatenation of a sequence of sequences
RECURSIVE Flatten(_)
Flatten(ss) ==
    IF Len(ss) = 0 THEN << >>
    ELSE IF Len(ss) = 1 THEN ss[1]
    ELSE LET h == Len(ss) \div 2
         IN  Flatten(SubSeq(ss, 1, h)) \o Flatten(SubSeq(ss, h + 1, Len(ss)))

\* the elements of a finite set of integers in increasing order
Sorted(S) ==
    [k \in 1..Cardinality(S) |-> CHOOSE i \in S : Cardinality({j \in S : j < i}) = k - 1]

lower(s) == Flatten([i \in DOMAIN s |-> lower_char(s[i])])

isalnum(w) == w # << >> /\ \A i \in DOMAIN w : isalnum_char(w[i])

strip(s) ==
    LET kept == {i \in DOMAIN s : ~IsSpace(s[i])}
    IN  IF kept = {} THEN << >>
        ELSE SubSeq(s, CHOOSE i \in kept : \A j \in kept : i <= j,
                       CHOOSE i \in kept : \A j \in kept : j <= i)

(***************************************************************************)
(* str.split() and ' '.join(words).                                        *)
(***************************************************************************)
\* the maximal runs of consecutive positions of s that are in the set I, as
\* substrings from left to right
Runs(s, I) ==
    LET starts == Sorted({i \in I : (i - 1) \notin I})
        last(i) == CHOOSE j \in i..Len(s) : (i..j) \subseteq I /\ (j + 1) \notin I
    IN  [k \in DOMAIN starts |-> SubSeq(s, starts[k], last(starts[k]))]

split(s) == Runs(s, {i \in DOMAIN s : ~IsSpace(s[i])})

join(words) ==
    IF Len(words) = 0 THEN << >>
    ELSE Flatten([k \in 1..(2 * Len(words) - 1) |->
                    IF k % 2 = 1 THEN words[(k + 1) \div 2] ELSE << " " >>])

(***************************************************************************)
(* nltk.word_tokenize and nltk.sent_tokenize on the characters above:      *)
(* whitespace separates tokens, each terminator is a token of its own, and *)
(* the Treebank contractions without an apostrophe are split in two.  A    *)
(* sentence ends at a terminator that is followed by whitespace and more   *)
(* text.                                                                   *)
(***************************************************************************)
Contractions2 ==
    { << <<"c","a","n">>, <<"n","o","t">> >>, << <<"g","i","m">>, <<"m","e">> >>, << <<"g","o","n">>, <<"n","a">> >>,
      << <<"g","o","t">>, <<"t","a">> >>, << <<"l","e","m">>, <<"m","e">> >>, << <<"w","a","n">>, <<"n","a">> >> }

SplitContraction(tok) ==
    IF \E c \in Contractions2 : lower(tok) = c[1] \o c[2]
    THEN LET c == CHOOSE c \in Contractions2 : lower(tok) = c[1] \o c[2]
         IN  << SubSeq(tok, 1, Len(c[1])), SubSeq(tok, Len(c[1]) + 1, Len(tok)) >>
    ELSE << tok >>

word_tokenize(s) ==
    LET IsWordChar(c) == ~IsSpace(c) /\ c \notin Terminators
        starts == Sorted({i \in DOMAIN s :
                            \/ s[i] \in Terminators
                            \/ IsWordChar(s[i]) /\ (i = 1 \/ ~IsWordChar(s[i - 1]))})
        last(i) == CHOOSE j \in i..Len(s) :
                       /\ \A k \in i..j : IsWordChar(s[k])
                       /\ j = Len(s) \/ ~IsWordChar(s[j + 1])
        piece(i) == IF s[i] \in Terminators THEN << << s[i] >> >>
                    ELSE SplitContraction(SubSeq(s, i, last(i)))
    IN  Flatten([k \in DOMAIN starts |-> piece(starts[k])])

sent_tokenize(s) ==
    LET breaks == Sorted({i \in DOMAIN s :
                            /\ s[i] \in Terminators
                            /\ i < Len(s)
                            /\ IsSpace(s[i + 1])
                            /\ \E j \in (i + 2)..Len(s) : ~IsSpace(s[j])})
        n == Len(breaks)
        from(k) == IF k = 1 THEN 1 ELSE breaks[k - 1] + 1
        to(k)   == IF k = n + 1 THEN Len(s) ELSE breaks[k]
    IN  IF strip(s) = << >> THEN << >>
        ELSE [k \in 1..(n + 1) |-> strip(SubSeq(s, from(k), to(k)))]

(***************************************************************************)
(* TextAnalyzer.clean_text                                                 *)
(***************************************************************************)
stop_words ==
    { <<"i">>, <<"m","e">>, <<"m","y">>, <<"m","y","s","e","l","f">>, <<"w","e">>, <<"o","u","r">>,
      <<"o","u","r","s">>, <<"o","u","r","s","e","l","v","e","s">>, <<"y","o","u">>,
      <<"y","o","u","r">>, <<"y","o","u","r","s">>, <<"y","o","u","r","s","e","l","f">>,
      <<"y","o","u","r","s","e","l","v","e","s">>, <<"h","e">>, <<"h","i","m">>, <<"h","i","s">>,
      <<"h","i","m","s","e","l","f">>, <<"s","h","e">>, <<"h","e","r">>, <<"h","e","r","s">>,
      <<"h","e","r","s","e","l","f">>, <<"i","t">>, <<"i","t","s">>, <<"i","t","s","e","l","f">>,
      <<"t","h","e","y">>, <<"t","h","e","m">>, <<"t","h","e","i","r">>, <<"t","h","e","i","r","s">>,
      <<"t","h","e","m","s","e","l","v","e","s">>, <<"w","h","a","t">>, <<"w","h","i","c","h">>,
      <<"w","h","o">>, <<"w","h","o","m">>, <<"t","h","i","s">>, <<"t","h","a","t">>,
      <<"t","h","e","s","e">>, <<"t","h","o","s","e">>, <<"a","m">>, <<"i","s">>, <<"a","r","e">>,
      <<"w","a","s">>, <<"w","e","r","e">>, <<"b","e">>, <<"b","e","e","n">>, <<"b","e","i","n","g">>,
      <<"h","a","v","e">>, <<"h","a","s">>, <<"h","a","d">>, <<"h","a","v","i","n","g">>, <<"d","o">>,
      <<"d","o","e","s">>, <<"d","i","d">>, <<"d","o","i","n","g">>, <<"a">>, <<"a","n">>,
      <<"t","h","e">>, <<"a","n","d">>, <<"b","u","t">>, <<"i","f">>, <<"o","r">>,
      <<"b","e","c","a","u","s","e">>, <<"a","s">>, <<"u","n","t","i","l">>, <<"w","h","i","l","e">>,
      <<"o","f">>, <<"a","t">>, <<"b","y">>, <<"f","o","r">>, <<"w","i","t","h">>,
      <<"a","b","o","u","t">>, <<"a","g","a","i","n","s","t">>, <<"b","e","t","w","e","e","n">>,
      <<"i","n","t","o">>, <<"t","h","r","o","u","g","h">>, <<"d","u","r","i","n","g">>,
      <<"b","e","f","o","r","e">>, <<"a","f","t","e","r">>, <<"a","b","o","v","e">>,
      <<"b","e","l","o","w">>, <<"t","o">>, <<"f","r","o","m">>, <<"u","p">>, <<"d","o","w","n">>,
      <<"i","n">>, <<"o","u","t">>, <<"o","n">>, <<"o","f","f">>, <<"o","v","e","r">>,
      <<"u","n","d","e","r">>, <<"a","g","a","i","n">>, <<"f","u","r","t","h","e","r">>,
      <<"t","h","e","n">>, <<"o","n","c","e">>, <<"h","e","r","e">>, <<"t","h","e","r","e">>,
      <<"w","h","e","n">>, <<"w","h","e","r","e">>, <<"w","h","y">>, <<"h","o","w">>, <<"a","l","l">>,
      <<"a","n","y">>, <<"b","o","t","h">>, <<"e","a","c","h">>, <<"f","e","w">>, <<"m","o","r","e">>,
      <<"m","o","s","t">>, <<"o","t","h","e","r">>, <<"s","o","m","e">>, <<"s","u","c","h">>,
      <<"n","o">>, <<"n","o","r">>, <<"n","o","t">>, <<"o","n","l","y">>, <<"o","w","n">>,
      <<"s","a","m","e">>, <<"s","o">>, <<"t","h","a","n">>, <<"t","o","o">>, <<"v","e","r","y">>,
      <<"s">>, <<"t">>, <<"c","a","n">>, <<"w","i","l","l">>, <<"j","u","s","t">>, <<"d","o","n">>,
      <<"s","h","o","u","l","d">>, <<"n","o","w">>, <<"d">>, <<"l","l">>, <<"m">>, <<"o">>,
      <<"r","e">>, <<"v","e">>, <<"y">>, <<"a","i","n">>, <<"a","r","e","n">>,
      <<"c","o","u","l","d","n">>, <<"d","i","d","n">>, <<"d","o","e","s","n">>, <<"h","a","d","n">>,
      <<"h","a","s","n">>, <<"h","a","v","e","n">>, <<"i","s","n">>, <<"m","a">>,
      <<"m","i","g","h","t","n">>, <<"m","u","s","t","n">>, <<"n","e","e","d","n">>,
      <<"s","h","a","n">>, <<"s","h","o","u","l","d","n">>, <<"w","a","s","n">>,
      <<"w","e","r","e","n">>, <<"w","o","n">>, <<"w","o","u","l","d","n">> }

LowerAll(ws) == [i \in DOMAIN ws |-> lower(ws[i])]

clean_text(s) ==
    LET toks   == word_tokenize(s)
        words  == LowerAll(SelectSeq(toks, isalnum))
        words2 == SelectSeq(words, LAMBDA w : w \notin stop_words)
    IN  join(words2)

(***************************************************************************)
(* TextAnalyzer.count_syllables                                            *)
(***************************************************************************)
vowelsAnyCase == {"a", "e", "i", "o", "u", "A", "E", "I", "O", "U"}

vowels == {"a", "e", "i", "o", "u"}

\* the loop over the characters of word, entered with the given locals
RECURSIVE SyllableLoop(_, _, _)
SyllableLoop(word, syllables, prev_char_was_vowel) ==
    IF word = << >> THEN syllables
    ELSE IF Head(word) \in vowels /\ ~prev_char_was_vowel
         THEN SyllableLoop(Tail(word), syllables + 1, TRUE)
         ELSE IF Head(word) \notin vowels
              THEN SyllableLoop(Tail(word), syllables, FALSE)
              ELSE SyllableLoop(Tail(word), syllables, prev_char_was_vowel)

count_syllables(word) == SyllableLoop(word, 0, FALSE)

(***************************************************************************)
(* TextAnalyzer.count_personal_pronouns                                    *)
(***************************************************************************)
pronouns == { <<"i">>, <<"w","e">>, <<"m","y">>, <<"o","u","r","s">>, <<"u","s">> }

\* \w of the re module
re_word_char(c) == isalnum_char(c) \/ c = "_"

\* re.findall(r'\b(?:i|we|my|ours|us)\b', s): the maximal runs of \w that
\* spell one of the pronouns
findall_pronouns(s) == SelectSeq(Runs(s, {i \in DOMAIN s : re_word_char(s[i])}), LAMBDA r : r \in pronouns)

count_personal_pronouns(s) == Len(findall_pronouns(lower(s)))

(***************************************************************************)
(* Arithmetic.  A quotient a / b of Python numbers raises                  *)
(* ZeroDivisionError when b is 0 and is otherwise the fraction [num, den]. *)
(***************************************************************************)
Rat(a, b) == [num |-> a, den |-> b]

RatAdd(x, y) == Rat(x.num * y.den + y.num * x.den, x.den * y.den)

RatMul(x, y) == Rat(x.num * y.num, x.den * y.den)

\* the additive constant 0.000001 of the sentiment ratios is 1 / EpsDen
EpsDen == 1000000

Raised(e) == [raised |-> e]

RECURSIVE SumSeq(_)
SumSeq(ns) == IF ns = << >> THEN 0 ELSE Head(ns) + SumSeq(Tail(ns))

MapLen(ws) == [i \in DOMAIN ws |-> Len(ws[i])]

MapSyllables(ws) == [i \in DOMAIN ws |-> count_syllables(ws[i])]

MapTokenCount(ss) == [i \in DOMAIN ss |-> Len(word_tokenize(ss[i]))]

(***************************************************************************)
(* TextAnalyzer.sentiment_analysis; the opinion lexicon is the pair of     *)
(* sets positive_words, negative_words.                                    *)
(***************************************************************************)
PolarityNoEpsilon(positive_score, negative_score) ==
    Rat(positive_score - negative_score, positive_score + negative_score)

PolarityScore(positive_score, negative_score) ==
    Rat((positive_score - negative_score) * EpsDen,
        (positive_score + negative_score) * EpsDen + 1)

SubjectivityNoEpsilon(positive_score, negative_score, n) ==
    Rat(positive_score + negative_score, n)

SubjectivityScore(positive_score, negative_score, n) ==
    Rat((positive_score + negative_score) * EpsDen, n * EpsDen + 1)

sentiment_analysis(toks) ==
    LET positive_score == Len(SelectSeq(toks, LAMBDA w : w \in positive_words))
        negative_score == Len(SelectSeq(toks, LAMBDA w : w \in negative_words))
    IN  [ positive_score     |-> positive_score,
          negative_score     |-> negative_score,
          polarity_score     |-> PolarityScore(positive_score, negative_score),
          subjectivity_score |-> SubjectivityScore(positive_score, negative_score, Len(toks)) ]

(***************************************************************************)
(* TextAnalyzer.readability_analysis                                       *)
(***************************************************************************)
IsComplex(word) == Len(word) > 6 /\ count_syllables(word) > 3

FogIndexUnparenthesised(avg_words_per_sentence, complex_word_count, n) ==
    RatAdd(RatMul(Rat(4, 10), avg_words_per_sentence), Rat(complex_word_count, n))

FogIndex(avg_words_per_sentence, complex_word_count, n) ==
    RatMul(Rat(4, 10), RatAdd(avg_words_per_sentence, Rat(complex_word_count, n)))

readability_analysis(s) ==
    LET sentences     == sent_tokenize(s)
        num_sentences == Len(sentences)
        total_words   == SumSeq(MapTokenCount(sentences))
        words         == split(clean_text(s))
        complex_word_count == Len(SelectSeq(words, IsComplex))
    IN  IF num_sentences = 0 THEN Raised("ZeroDivisionError")
        ELSE IF Len(words) = 0 THEN Raised("ZeroDivisionError")
        ELSE [ raised                 |-> NoError,
               avg_words_per_sentence |-> Rat(total_words, num_sentences),
               complex_word_count     |-> complex_word_count,
               fog_index              |-> FogIndex(Rat(total_words, num_sentences),
                                                   complex_word_count, Len(words)) ]

(***************************************************************************)
(* TextAnalyzer.syllable_count_per_word, TextAnalyzer.average_word_length  *)
(***************************************************************************)
syllable_count_per_word(s) ==
    LET words == split(clean_text(s))
        total_syllables == SumSeq(MapSyllables(words))
    IN  IF Len(words) = 0 THEN Raised("ZeroDivisionError")
        ELSE [raised |-> NoError, value |-> Rat(total_syllables, Len(words))]

average_word_length(s) ==
    LET words == split(clean_text(s))
        total_characters == SumSeq(MapLen(words))
    IN  IF Len(words) = 0 THEN Raised("ZeroDivisionError")
        ELSE [raised |-> NoError, value |-> Rat(total_characters, Len(words))]

(***************************************************************************)
(* TextAnalyzer.analyze_text.  The first statement that raises ends the    *)
(* call; word_tokenize(None) raises TypeError.                             *)
(***************************************************************************)
\* the statements of analyze_text after cleaned_text is assigned
AnalyzeCleaned(cleaned_text) ==
    LET tokenized_text == word_tokenize(cleaned_text)
        sentiment      == sentiment_analysis(tokenized_text)
        readability    == readability_analysis(cleaned_text)
        syllable_per_word == syllable_count_per_word(cleaned_text)
        personal_pronouns == count_personal_pronouns(cleaned_text)
        avg_word_length   == average_word_length(cleaned_text)
    IN  IF readability.raised # NoError THEN Raised(readability.raised)
        ELSE IF syllable_per_word.raised # NoError THEN Raised(syllable_per_word.raised)
        ELSE IF avg_word_length.raised # NoError THEN Raised(avg_word_length.raised)
        ELSE IF Len(tokenized_text) = 0 THEN Raised("ZeroDivisionError")
        ELSE [ raised                 |-> NoError,
               positive_score         |-> sentiment.positive_score,
               negative_score         |-> sentiment.negative_score,
               polarity_score         |-> sentiment.polarity_score,
               subjectivity_score     |-> sentiment.subjectivity_score,
               avg_words_per_sentence |-> readability.avg_words_per_sentence,
               percentage_complex     |-> Rat(readability.complex_word_count, Len(tokenized_text)),
               fog_index              |-> readability.fog_index,
               complex_word_count     |-> readability.complex_word_count,
               word_count             |-> Len(tokenized_text),
               syllable_per_word      |-> syllable_per_word.value,
               personal_pronouns      |-> personal_pronouns,
               avg_word_length        |-> avg_word_length.value ]

\* cleaned_text = self.clean_text(text) is computed once and the rest of the
\* body runs on its value
analyze_text(body) ==
    IF body = None THEN Raised("TypeError")
    ELSE CHOOSE record \in { AnalyzeCleaned(cleaned_text) : cleaned_text \in {clean_text(body)} } : TRUE

(***************************************************************************)
(* ArticleScraper.scrape_articles of src/main.py computes the same metrics *)
(* by calling the analyzer's functions one after the other.                *)
(***************************************************************************)
ScrapeCleaned(cleaned_text) ==
    LET tokenized_text == word_tokenize(cleaned_text)
        sentiment      == sentiment_analysis(tokenized_text)
        readability    == readability_analysis(cleaned_text)
        syllable_per_word == syllable_count_per_word(cleaned_text)
        personal_pronouns == count_personal_pronouns(cleaned_text)
        avg_word_length   == average_word_length(cleaned_text)
    IN  IF readability.raised # NoError THEN Raised(readability.raised)
        ELSE IF syllable_per_word.raised # NoError THEN Raised(syllable_per_word.raised)
        ELSE IF avg_word_length.raised # NoError THEN Raised(avg_word_length.raised)
        ELSE [ raised                 |-> NoError,
               positive_score         |-> sentiment.positive_score,
               negative_score         |-> sentiment.negative_score,
               polarity_score         |-> sentiment.polarity_score,
               subjectivity_score     |-> sentiment.subjectivity_score,
               avg_words_per_sentence |-> readability.avg_words_per_sentence,
               complex_word_count     |-> readability.complex_word_count,
               fog_index              |-> readability.fog_index,
               syllable_per_word      |-> syllable_per_word.value,
               personal_pronouns      |-> personal_pronouns,
               avg_word_length        |-> avg_word_length.value ]

scrape_metrics(article_text) ==
    IF article_text = None THEN Raised("TypeError")
    ELSE CHOOSE record \in { ScrapeCleaned(cleaned_text) : cleaned_text \in {clean_text(article_text)} } : TRUE

(***************************************************************************)
(* Inputs.                                                                 *)
(***************************************************************************)
FogText ==
    << "T","h","e"," ","e","c","o","n","o","m","i","c","a","l"," ","p","l","a","n"," ",
       "w","a","s"," ","u","n","a","v","o","i","d","a","b","l","e"," ","a","n","d"," ",
       "w","e"," ","m","a","d","e"," ","g","o","o","d"," ","m","o","n","e","y","!"," ",
       "I","t"," ","i","s"," ","a"," ","b","a","d"," ","i","d","e","a"," ","f","o","r",
       " ","u","s"," ","t","o","d","a","y","!" >>

PronounText ==
    << "I"," ","l","o","v","e"," ","u","s" >>

StopText ==
    << "I","t"," ","i","s","!" >>

SentenceText ==
    << "G","o","o","d"," ","d","a","y","!"," ","N","i","c","e"," ","d","a","y","!" >>

RhythmText ==
    << "r","h","y","t","h","m" >>

TitleText ==
    << "N","e","w","s" >>

Alphabet == {"u", "s", "I", " ", "!", DottedCapitalI}

SeqsUpTo(S, n) == UNION { [1..k -> S] : k \in 0..n }

Texts == SeqsUpTo(Alphabet, MaxLen) \cup {FogText, PronounText, StopText, SentenceText, RhythmText}

Vocabulary == { <<"g","o","o","d">>, <<"b","a","d">>, <<"d","a","y">> }

\* the entries of the opinion lexicon that occur in the sample texts
PositiveExcerpt == { <<"g","o","o","d">>, <<"l","o","v","e">>, <<"n","i","c","e">> }

NegativeExcerpt == { <<"b","a","d">> }

\* what requests.get(url) finds: an exception, or a page whose h1.entry-title
\* and div.td-post-content are absent (None) or have the given text
Page(h1, div) == [status |-> "ok", h1 |-> h1, div |-> div]

Responses ==
    { [status |-> "error", h1 |-> None, div |-> None],
      Page(None, PronounText), Page(TitleText, None), Page(TitleText, << " " >>),
      Page(TitleText, PronounText), Page(TitleText, StopText), Page(TitleText, SentenceText) }

NoCall == [fn |-> "none", arg |-> << >>, val |-> << >>]

Call(f, a, v) == [fn |-> f, arg |-> a, val |-> v]

(***************************************************************************)
(* The text functions applied to one input text.                           *)
(***************************************************************************)
batchIdle ==
    /\ driver = "none" /\ web = << >> /\ idx = 0 /\ fetches = << >>
    /\ results = << >> /\ output = << >> /\ written = 0 /\ pc = "idle"

batchVars == << driver, web, idx, fetches, results, output, written, pc >>

InitText ==
    /\ text \in Texts
    /\ cleans = 0
    /\ tokens = << >>
    /\ positive_words = PositiveExcerpt
    /\ negative_words = NegativeExcerpt
    /\ out = NoCall
    /\ batchIdle

Clean ==
    /\ cleans < MaxCleans
    /\ text' = clean_text(text)
    /\ cleans' = cleans + 1
    /\ out' = Call("clean_text", text, clean_text(text))
    /\ UNCHANGED << tokens, positive_words, negative_words, batchVars >>

\* count_syllables is called on the whitespace-separated words of a text
CountSyllables ==
    /\ \E word \in Range(split(text)) \cup {<< >>} :
           out' = Call("count_syllables", word, count_syllables(word))
    /\ UNCHANGED << text, cleans, tokens, positive_words, negative_words, batchVars >>

CountPronouns ==
    /\ out' = Call("count_personal_pronouns", text, count_personal_pronouns(text))
    /\ UNCHANGED << text, cleans, tokens, positive_words, negative_words, batchVars >>

Readability ==
    /\ out' = Call("readability_analysis", text, readability_analysis(text))
    /\ UNCHANGED << text, cleans, tokens, positive_words, negative_words, batchVars >>

AnalyzeText ==
    /\ out' = Call("analyze_text", text, analyze_text(text))
    /\ UNCHANGED << text, cleans, tokens, positive_words, negative_words, batchVars >>

NextText == Clean \/ CountSyllables \/ CountPronouns \/ Readability \/ AnalyzeText

SpecText == InitText /\ [][NextText]_vars

(***************************************************************************)
(* sentiment_analysis applied to a token list under a given lexicon.       *)
(***************************************************************************)
InitSent ==
    /\ tokens \in SeqsUpTo(Vocabulary, MaxTokens)
    /\ positive_words \in SUBSET Vocabulary
    /\ negative_words \in SUBSET Vocabulary
    /\ text = << >>
    /\ cleans = 0
    /\ out = NoCall
    /\ batchIdle

Score ==
    /\ out' = Call("sentiment_analysis", tokens, sentiment_analysis(tokens))
    /\ UNCHANGED << text, cleans, tokens, positive_words, negative_words, batchVars >>

NextSent == Score

SpecSent == InitSent /\ [][NextSent]_vars

(***************************************************************************)
(* The batch drivers: main of src/sentiment_analyzer.py and                *)
(* ArticleScraper.scrape_articles of src/main.py.                          *)
(***************************************************************************)
extract_article_info(response) ==
    IF response.status = "error" THEN << None, None >>
    ELSE << IF response.h1 = None THEN None ELSE strip(response.h1),
            IF response.div = None THEN None ELSE strip(response.div) >>

\* truth value of an optional str
Truthy(x) == x # None /\ x # << >>

ShouldAnalyzeTitleOnly(article_title, article_text) == Truthy(article_title)

ShouldAnalyze(article_title, article_text) == Truthy(article_title) /\ Truthy(article_text)

Metrics(article_text) ==
    IF driver = "main" THEN analyze_text(article_text) ELSE scrape_metrics(article_text)

Init ==
    /\ driver \in {"main", "scrape_articles"}
    /\ web \in SeqsUpTo(Responses, MaxRows)
    /\ idx = 1
    /\ fetches = [i \in DOMAIN web |-> 0]
    /\ results = << >>
    /\ output = << >>
    /\ written = 0
    /\ pc = "loop"
    /\ positive_words = PositiveExcerpt
    /\ negative_words = NegativeExcerpt
    /\ text = << >>
    /\ cleans = 0
    /\ tokens = << >>
    /\ out = NoCall

textVars == << text, cleans, tokens, positive_words, negative_words, out >>

SkipRow ==
    /\ pc = "loop"
    /\ idx <= Len(web)
    /\ \E info \in {extract_article_info(web[idx])} :
           ~ShouldAnalyze(info[1], info[2])
    /\ fetches' = [fetches EXCEPT ![idx] = @ + 1]
    /\ idx' = idx + 1
    /\ UNCHANGED << driver, web, results, output, written, pc, textVars >>

AnalyzeRow ==
    /\ pc = "loop"
    /\ idx <= Len(web)
    /\ \E info \in {extract_article_info(web[idx])} :
           /\ ShouldAnalyze(info[1], info[2])
           /\ \E rec \in {Metrics(info[2])} :
                 /\ rec.raised = NoError
                 /\ results' = Append(results, [url |-> idx, title |-> info[1], metrics |-> rec])
    /\ fetches' = [fetches EXCEPT ![idx] = @ + 1]
    /\ idx' = idx + 1
    /\ UNCHANGED << driver, web, output, written, pc, textVars >>

\* an exception raised by the analysis leaves the loop and ends the program
AbortRow ==
    /\ pc = "loop"
    /\ idx <= Len(web)
    /\ \E info \in {extract_article_info(web[idx])} :
           /\ ShouldAnalyze(info[1], info[2])
           /\ \E rec \in {Metrics(info[2])} : rec.raised # NoError
    /\ fetches' = [fetches EXCEPT ![idx] = @ + 1]
    /\ pc' = "aborted"
    /\ UNCHANGED << driver, web, idx, results, output, written, textVars >>

WriteOutput ==
    /\ pc = "loop"
    /\ idx > Len(web)
    /\ output' = results
    /\ written' = written + 1
    /\ pc' = "done"
    /\ UNCHANGED << driver, web, idx, fetches, results, textVars >>

Next == SkipRow \/ AnalyzeRow \/ AbortRow \/ WriteOutput

Spec == Init /\ [][Next]_vars

(***************************************************************************)
(* Properties of the batch drivers (Spec).                                 *)
(***************************************************************************)

\* C1: a row whose fetch fails, or whose page has no body text, never
\* produces a record and is never handed to the analysis; a batch of three
\* URLs of which exactly one fetch fails and the other two are analysed
\* gives exactly two output rows.
C1_FailedRowsProduceNoRecord ==
    LET body(i)    == extract_article_info(web[i])[2]
        hasBody(i) == body(i) # None /\ body(i) # << >>
        failed     == {i \in DOMAIN web : web[i].status = "error"}
    IN  /\ \A k \in DOMAIN results :
              /\ results[k].url \in DOMAIN web
              /\ web[results[k].url].status = "ok"
              /\ hasBody(results[k].url)
        /\ pc = "aborted" => hasBody(idx)
        /\ (pc = "done" /\ Len(web) = 3 /\ Cardinality(failed) = 1
              /\ \A i \in DOMAIN web \ failed : fetches[i] = 1 /\ hasBody(i) /\ web[i].h1 = TitleText)
           => /\ Len(output) = 2
              /\ \A k \in DOMAIN output : output[k].url \notin failed

C1_Witness ==
    /\ pc = "done" /\ written = 1
    /\ Len(web) = 3 /\ Len(output) = 2
    /\ Cardinality({i \in DOMAIN web : web[i].status = "error"}) = 1

\* C2 (as claimed): no article that passes the skip check makes the analysis
\* raise, so the batch never ends without writing its output.
C2_NoArticleAbortsTheBatch == pc # "aborted"

\* C3 (as claimed): the records are exactly the rows fetched so far whose page
\* has a non-empty body, in input order; every row is fetched at most once;
\* the run never stops before the write, and what is written is the list of
\* records.
C3_OutputIsRowsWithBody ==
    LET body(i) == extract_article_info(web[i])[2]
        withBody == SelectSeq([i \in 1..(idx - 1) |-> i],
                              LAMBDA i : body(i) # None /\ body(i) # << >>)
    IN  /\ [k \in DOMAIN results |-> results[k].url] = withBody
        /\ \A i \in DOMAIN web : fetches[i] <= 1
        /\ pc # "aborted"
        /\ pc = "done" => written = 1 /\ output = results /\ idx = Len(web) + 1

(***************************************************************************)
(* Properties of the text functions (SpecText).                            *)
(***************************************************************************)

\* C4 (as claimed): the personal-pronoun field of the record returned by
\* analyze_text is the number of whole-word pronouns of the raw body.
C4_PronounsCountedOnRawBody ==
    (out.fn = "analyze_text" /\ out.val.raised = NoError)
        => out.val.personal_pronouns =
               Len(SelectSeq(split([i \in DOMAIN lower(out.arg) |->
                                       IF isalnum_char(lower(out.arg)[i]) THEN lower(out.arg)[i] ELSE " "]),
                             LAMBDA r : r \in { <<"i">>, <<"w","e">>, <<"m","y">>, <<"o","u","r","s">>, <<"u","s">> }))

\* C5 (as claimed): avg_words_per_sentence of the record returned by
\* analyze_text is the number of word tokens of the raw body's sentences
\* divided by the number of sentences of the raw body.
C5_AverageOverRawSentences ==
    (out.fn = "analyze_text" /\ out.val.raised = NoError)
        => LET sentences == sent_tokenize(out.arg)
               total     == SumSeq([k \in DOMAIN sentences |-> Len(word_tokenize(sentences[k]))])
           IN  out.val.avg_words_per_sentence.num * Len(sentences)
                   = total * out.val.avg_words_per_sentence.den

\* C6 (as claimed): a text that clean_text returned is a fixed point of
\* clean_text, and each of its words is lowercase, alphanumeric and not a
\* stopword.
C6_CleanIsIdempotent ==
    cleans >= 1
        => /\ clean_text(text) = text
           /\ \A w \in Range(split(text)) :
                 /\ \A i \in DOMAIN w : w[i] \notin Range(UpperCase) \cup {DottedCapitalI}
                 /\ \A i \in DOMAIN w : w[i] \in Range(LowerCase) \cup Range(UpperCase) \cup Digits
                 /\ w \notin stop_words

\* C8: readability_analysis counts as complex the cleaned words longer than 6
\* characters with more than 3 syllables, and its fog index is
\* 0.4 * (avg_words_per_sentence + complex_word_count / cleaned word count);
\* on the text of 2 sentences, 20 tokens, 10 cleaned words and 2 complex words
\* it returns 10.0 and 4.08.
C8_FogIndex ==
    (out.fn = "readability_analysis" /\ out.val.raised = NoError)
        => LET words == split(clean_text(out.arg))
               n     == Len(words)
               c     == Cardinality({i \in DOMAIN words :
                                       Len(words[i]) > 6 /\ count_syllables(words[i]) > 3})
               avg   == out.val.avg_words_per_sentence
               fog   == out.val.fog_index
           IN  /\ out.val.complex_word_count = c
               \* fog = 4/10 * (avg.num/avg.den + c/n)
               /\ fog.num * (10 * avg.den * n) = 4 * (avg.num * n + c * avg.den) * fog.den
               /\ out.arg = FogText
                    => /\ avg.num = 10 * avg.den
                       /\ 100 * fog.num = 408 * fog.den

C8_Witness ==
    /\ out.fn = "readability_analysis"
    /\ out.arg = FogText
    /\ out.val.raised = NoError
    /\ Len(sent_tokenize(FogText)) = 2
    /\ Len(word_tokenize(FogText)) = 20
    /\ Len(split(clean_text(FogText))) = 10
    /\ out.val.complex_word_count = 2

\* C9: count_syllables(w) is the number of maximal runs of the lowercase
\* vowels a, e, i, o, u in w: 0 for the empty word and for a word without
\* such a vowel; uppercase vowels are not counted.
C9_SyllablesAreVowelRuns ==
    out.fn = "count_syllables"
        => LET w == out.arg
               V == {"a", "e", "i", "o", "u"}
           IN  /\ out.val = Cardinality({i \in DOMAIN w : w[i] \in V /\ (i = 1 \/ w[i - 1] \notin V)})
               /\ (\A i \in DOMAIN w : w[i] \notin V) => out.val = 0
               /\ w \in {<< >>, RhythmText, << "I" >>} => out.val = 0

C9_Witness ==
    /\ out.fn = "count_syllables"
    /\ out.val = 2
    /\ "I" \in Range(out.arg)

(***************************************************************************)
(* Properties of sentiment_analysis (SpecSent).                            *)
(***************************************************************************)

\* the quotient x.num / x.den, 0 <= x < 20, rounded to 8 decimals, times 10^8
RECURSIVE LongDiv(_, _, _)
LongDiv(num, den, k) ==
    IF k = 0 THEN [q |-> num \div den, r |-> num % den]
    ELSE LET p == LongDiv(num, den, k - 1)
         IN  [q |-> p.q * 10 + (p.r * 10) \div den, r |-> (p.r * 10) % den]

Round8(x) ==
    LET p == LongDiv(x.num, x.den, 8)
    IN  p.q + (IF 2 * p.r >= x.den THEN 1 ELSE 0)

GoodGoodBad ==
    /\ out.fn = "sentiment_analysis"
    /\ tokens = << <<"g","o","o","d">>, <<"g","o","o","d">>, <<"b","a","d">> >>
    /\ positive_words = { <<"g","o","o","d">> }
    /\ negative_words = { <<"b","a","d">> }

\* C7 (as claimed): on [good, good, bad] the scores are 2, 1, polarity
\* 0.99999967 and subjectivity 0.99999967.
C7_PolarityNearOne ==
    GoodGoodBad
        => /\ out.val.positive_score = 2
           /\ out.val.negative_score = 1
           /\ Round8(out.val.polarity_score) = 99999967
           /\ Round8(out.val.subjectivity_score) = 99999967

\* C7 (amended): on [good, good, bad] the scores are 2, 1, polarity
\* (2 - 1) / (2 + 1 + 1e-6) = 0.33333322 and subjectivity
\* (2 + 1) / (3 + 1e-6) = 0.99999967.
C7_PolarityOneThird ==
    GoodGoodBad
        => /\ out.val.positive_score = 2
           /\ out.val.negative_score = 1
           /\ out.val.polarity_score = [num |-> 1000000, den |-> 3000001]
           /\ out.val.subjectivity_score = [num |-> 3000000, den |-> 3000001]
           /\ Round8(out.val.polarity_score) = 33333322
           /\ Round8(out.val.subjectivity_score) = 99999967

C7_Witness == GoodGoodBad /\ out.val.positive_score = 2 /\ out.val.negative_score = 1

\* C10 (as claimed): for every token list and every pair of lexicons the
\* counts are non-negative, add up to at most len(tokens), subjectivity is in
\* [0, 1) and polarity strictly between -1 and 1.
C10_CountsWithinLength ==
    out.fn = "sentiment_analysis"
        => LET v == out.val
           IN  /\ 0 <= v.positive_score /\ 0 <= v.negative_score
               /\ v.positive_score + v.negative_score <= Len(tokens)
               /\ 0 <= v.subjectivity_score.num
               /\ v.subjectivity_score.num < v.subjectivity_score.den
               /\ -v.polarity_score.den < v.polarity_score.num
               /\ v.polarity_score.num < v.polarity_score.den

\* C10 (amended): each count is between 0 and len(tokens) and polarity is
\* strictly between -1 and 1; when no word is in both lexicons the counts add
\* up to at most len(tokens) and subjectivity is in [0, 1).
C10_CountsWithinLengthIfDisjoint ==
    out.fn = "sentiment_analysis"
        => LET v == out.val
           IN  /\ 0 <= v.positive_score /\ v.positive_score <= Len(tokens)
               /\ 0 <= v.negative_score /\ v.negative_score <= Len(tokens)
               /\ 0 < v.polarity_score.den
               /\ -v.polarity_score.den < v.polarity_score.num
               /\ v.polarity_score.num < v.polarity_score.den
               /\ positive_words \cap negative_words = {}
                    => /\ v.positive_score + v.negative_score <= Len(tokens)
                       /\ 0 < v.subjectivity_score.den
                       /\ 0 <= v.subjectivity_score.num
                       /\ v.subjectivity_score.num < v.subjectivity_score.den

C10_Witness ==
    /\ out.fn = "sentiment_analysis"
    /\ positive_words \cap negative_words = {}
    /\ Len(tokens) = MaxTokens
    /\ out.val.positive_score + out.val.negative_score = Len(tokens)
    /\ out.val.positive_score > 0 /\ out.val.negative_score > 0

====
